---- MODULE Spec2Model ----
(***************************************************************************)
(* Mythos Nest (src/nest_service.py): the in-memory index INDEX with its   *)
(* build timestamp INDEXED_AT, the rebuild _index_drive_folder, the TTL    *)
(* policy _needs_refresh / ensure_index and the endpoints health, reindex, *)
(* docs_indexed and search.  The endpoints are plain "def" handlers, which *)
(* FastAPI runs on worker threads: requests interleave between any two     *)
(* accesses of the module globals.  Each request is a process p with a     *)
(* program counter pc[p]; one action is one stretch of a handler between   *)
(* two accesses of the globals (or two calls of the Drive adapter).        *)
(*                                                                         *)
(* Four specifications share the actions: Spec (two workers, requests      *)
(* interleaved), SpecSeq (one worker, requests in turn, more inputs),      *)
(* SpecRank (searches over any index of a small folder) and SpecFn (the    *)
(* helpers _score and _snippet called directly).                           *)
(***************************************************************************)
EXTENDS Integers, Sequences, FiniteSets, TLC

\* ------------------------------------------------------------------ bounds
\* The clock _now() takes the values 0..MaxTime under concurrent requests
\* and 0..MaxTimeSeq when one worker serves the requests in turn.
MaxTime == 1
MaxTimeSeq == MaxTime + 2
\* At most MaxRebuilds executions of _index_drive_folder are started.
MaxRebuilds == 2

\* Worker threads serving requests.
Procs == {"w1", "w2"}
\* Identifiers of the PDF files the Drive folder may list: two under
\* concurrent requests, three when one worker serves the requests in turn.
FileIds == {1, 2}
FileIdsSeq == {1, 2, 3}
\* NEST_MAX_FILES values the environment may configure.
MaxFilesValues == {2}
MaxFilesValuesSeq == {1, 2}
\* NEST_TTL_SECS values the environment may configure
\* (int(os.getenv(...)) takes any integer, also a negative one).
TTLValues == {0, 1}
TTLValuesSeq == {0 - 1, 0, 1, 2}

\* Characters: NUL stands for "\x00", SP for a blank.
NUL == "0"
SP == " "
\* What pdfminer's extract_text returns for each file of the folder when it
\* does not raise: file 1 has no text layer, file 2 comes with a blank and a
\* NUL around its text, file 3 holds the query twice.
RawTextOf(f) ==
    CASE f = 1 -> <<>>
      [] f = 2 -> <<SP, "a", "b", NUL>>
      [] OTHER -> <<"A", "b", "a", "b">>
\* Queries and top_k values of search requests: under concurrent requests
\* one query that passes validation; with one worker also the empty query and
\* a query of one character.
Queries == { <<"a", "b">> }
QueriesSeq == { <<>>, <<"a">>, <<"a", "b">> }
TopKs == {1}
TopKsSeq == {0 - 1, 0, 1, 5}

\* Python's None, and a present Optional value.
None == <<>>
Some(x) == <<x>>
\* An unset local of a handler.
Unset == 0 - 1

\* ------------------------------------------------------------ pure helpers
Max(a, b) == IF a >= b THEN a ELSE b
Min(a, b) == IF a <= b THEN a ELSE b

\* str.lower() on the alphabet of the model.
LowerChar(c) == IF c = "A" THEN "a" ELSE IF c = "B" THEN "b" ELSE c
Lower(s) == [i \in 1..Len(s) |-> LowerChar(s[i])]

\* str.strip(): leading and trailing blanks removed.
RECURSIVE LStrip(_)
LStrip(s) == IF s # <<>> /\ Head(s) = SP THEN LStrip(Tail(s)) ELSE s
RECURSIVE RStrip(_)
RStrip(s) == IF s # <<>> /\ s[Len(s)] = SP THEN RStrip(SubSeq(s, 1, Len(s) - 1)) ELSE s
Strip(s) == RStrip(LStrip(s))

\* str.replace("\x00", "").
RECURSIVE RemoveNul(_)
RemoveNul(s) ==
    IF s = <<>> THEN <<>>
    ELSE IF Head(s) = NUL THEN RemoveNul(Tail(s))
    ELSE <<Head(s)>> \o RemoveNul(Tail(s))

\* Lines 149-150: text = extract_text(buf) or ""; text.strip().replace("\x00", "").
CleanText(raw) == RemoveNul(Strip(raw))

\* sorted(files, key=id, reverse=True): the identifiers in descending order.
RECURSIVE SortDesc(_)
SortDesc(S) ==
    IF S = {} THEN <<>>
    ELSE LET m == CHOOSE x \in S : \A y \in S : y <= x
         IN <<m>> \o SortDesc(S \ {m})

\* A Python slice seq[:n] (a negative n counts from the end).
SliceTo(seq, n) ==
    IF n >= 0 THEN SubSeq(seq, 1, Min(n, Len(seq)))
    ELSE SubSeq(seq, 1, Max(0, Len(seq) + n))

\* Line 135: the listing sorted by descending id and cut to NEST_MAX_FILES.
\* (Faulty variant CandidatesUncut: the slice is missing.)
CandidatesUncut(listed, maxFiles) == SortDesc(listed)
Candidates(listed, maxFiles) == SliceTo(SortDesc(listed), maxFiles)

\* A Python slice seq[a:b] with a >= 0 (a negative b counts from the end).
Slice(seq, a, b) ==
    LET hi == IF b >= 0 THEN Min(b, Len(seq)) ELSE Max(0, Len(seq) + b)
    IN SubSeq(seq, Min(a, Len(seq)) + 1, hi)

\* The first position j >= i (positions count from 1) at which q occurs in
\* t, or 0 when there is none.  The empty q occurs at every position up to
\* Len(t) + 1.
FindFrom(t, q, i) ==
    LET at == {j \in i..(Len(t) - Len(q) + 1) : SubSeq(t, j, j + Len(q) - 1) = q}
    IN IF at = {} THEN 0 ELSE CHOOSE j \in at : \A k \in at : j <= k

\* str.find(q): the offset (from 0) of the first occurrence, or -1.
Find(t, q) == FindFrom(t, q, 1) - 1

\* str.count(q): non-overlapping occurrences, scanning left to right; the
\* empty q is counted once per position, the end included.
RECURSIVE CountFrom(_, _, _)
CountFrom(t, q, i) ==
    IF q = <<>> THEN Len(t) + 2 - i
    ELSE LET j == FindFrom(t, q, i)
         IN IF j = 0 THEN 0 ELSE 1 + CountFrom(t, q, j + Len(q))
Count(t, q) == CountFrom(t, q, 1)

\* str.replace(old, new): the non-overlapping occurrences of old, scanning
\* left to right, become new; an empty old puts new before every character
\* and at the end.
RECURSIVE ReplaceFrom(_, _, _, _)
ReplaceFrom(s, old, new, i) ==
    LET j == FindFrom(s, old, i)
    IN IF j = 0 THEN SubSeq(s, i, Len(s))
       ELSE SubSeq(s, i, j - 1) \o new \o ReplaceFrom(s, old, new, j + Len(old))
Replace(s, old, new) ==
    IF old = <<>>
    THEN LET k == Len(new) + 1
         IN [x \in 1..(Len(s) * k + Len(new)) |->
                IF (x - 1) % k < Len(new) THEN new[((x - 1) % k) + 1]
                ELSE s[((x - 1) \div k) + 1]]
    ELSE ReplaceFrom(s, old, new, 1)

\* The emphasis marker "**" and the ellipsis character of _snippet.
MARK == <<"*", "*">>
ELLIPSIS == "..."
\* The default of _snippet's width parameter (line 100).
DefaultWidth == 200

\* Lines 100-109, _snippet.
\* (Faulty variant snippet_lower: the window is cut from the lowercased text.)
snippet_lower(text, query, width) ==
    LET q == Lower(query)
        t == Lower(text)
        pos == Find(t, q)
    IN IF pos = 0 - 1
       THEN SliceTo(text, width) \o (IF Len(text) > width THEN <<ELLIPSIS>> ELSE <<>>)
       ELSE LET start == Max(0, pos - (width \div 2))
                end == Min(Len(text), pos + Len(q) + (width \div 2))
            IN Replace(Slice(t, start, end), query, MARK \o query \o MARK)
_snippet(text, query, width) ==
    LET q == Lower(query)
        t == Lower(text)
        pos == Find(t, q)
    IN IF pos = 0 - 1
       THEN SliceTo(text, width) \o (IF Len(text) > width THEN <<ELLIPSIS>> ELSE <<>>)
       ELSE LET start == Max(0, pos - (width \div 2))
                end == Min(Len(text), pos + Len(q) + (width \div 2))
                snippet == Slice(text, start, end)
            IN Replace(snippet, query, MARK \o query \o MARK)

\* The divisor of line 119: the score is normalised per 1000 characters.
Kilo == 1000

\* Lines 111-119, _score: hits / max(1, len(lc) / 1000.0), kept exact as the
\* fraction num/den (hits * 1000 over max(1000, len(lc))); 0.0 is 0/1.
\* (Faulty variant score_unnormalised: the bare count.)
score_unnormalised(text, query) ==
    IF text = <<>> THEN [num |-> 0, den |-> 1]
    ELSE LET lc == Lower(text)
             hits == Count(lc, Lower(query))
         IN IF hits = 0 THEN [num |-> 0, den |-> 1]
            ELSE [num |-> hits, den |-> 1]
_score(text, query) ==
    IF text = <<>> THEN [num |-> 0, den |-> 1]
    ELSE LET lc == Lower(text)
             hits == Count(lc, Lower(query))
         IN IF hits = 0 THEN [num |-> 0, den |-> 1]
            ELSE [num |-> hits * Kilo, den |-> Max(Kilo, Len(lc))]

ScoreGt(a, b) == a.num * b.den > b.num * a.den
ScorePositive(a) == a.num > 0

\* Faulty variants of _needs_refresh: ">=" for ">", and "<" for ">".
needs_refresh_ge(indexedAt, ttl, t) ==
    IF indexedAt = None THEN TRUE ELSE (t - indexedAt[1]) >= ttl
needs_refresh_lt(indexedAt, ttl, t) ==
    IF indexedAt = None THEN TRUE ELSE (t - indexedAt[1]) < ttl
\* Lines 95-98, _needs_refresh, with its reads made explicit: INDEXED_AT,
\* settings.NEST_TTL_SECS and _now().
_needs_refresh(indexedAt, ttl, t) ==
    IF indexedAt = None THEN TRUE ELSE (t - indexedAt[1]) > ttl

\* ------------------------------------------------------------------- state
VARIABLES
    INDEX,       \* line 51: the list of documents [id, text]
    INDEXED_AT,  \* line 52: None or Some(timestamp)
    now,         \* the wall clock read by _now()
    settings,    \* config.py: the settings namespace, fixed at import
    pc,          \* pc[p]: where worker p stands in its handler
    op,          \* op[p]: the endpoint worker p is serving
    loc,         \* loc[p]: the locals of worker p's handler
    idxGen,      \* history: serial of the rebuild whose list INDEX holds (0: initial)
    atGen,       \* history: serial of the rebuild whose stamp INDEXED_AT holds
    pubCount,    \* history: number of assignments to INDEX so far
    rebuilds,    \* history: number of rebuilds started so far
    call         \* a direct call of _score or _snippet: arguments and result

vars == <<INDEX, INDEXED_AT, now, settings, pc, op, loc, idxGen, atGen, pubCount, rebuilds,
          call>>
store == <<INDEX, INDEXED_AT>>
hist == <<idxGen, atGen, pubCount, rebuilds>>

Loc0 ==
    [ files |-> <<>>, new_index |-> <<>>, t |-> Unset, gen |-> Unset, n |-> Unset,
      built |-> Unset,
      listed |-> {}, dl |-> <<>>, exraised |-> {},
      q |-> <<>>, top_k |-> 0,
      hits |-> <<>>, total_docs |-> Unset, indexed_at |-> None,
      gScore |-> Unset, gLen |-> Unset, gAt |-> Unset,
      scoredLen |-> Unset, scoredAt |-> None ]

\* No direct call of a helper has been made.
NoCall == [fn |-> "none"]

\* The state after import: lines 51-52, and the settings config.py read from
\* the environment.
InitWith(maxFiles, ttls) ==
    /\ INDEX = <<>>
    /\ INDEXED_AT = None
    /\ now = 0
    /\ settings \in [ NEST_DRIVE_FOLDER_ID : BOOLEAN, CREDS : BOOLEAN,
                      NEST_MAX_FILES : maxFiles, NEST_TTL_SECS : ttls ]
    /\ pc = [p \in Procs |-> "idle"]
    /\ op = [p \in Procs |-> "none"]
    /\ loc = [p \in Procs |-> Loc0]
    /\ idxGen = 0
    /\ atGen = 0
    /\ pubCount = 0
    /\ rebuilds = 0
    /\ call = NoCall

Init == InitWith(MaxFilesValues, TTLValues)
InitSeq == InitWith(MaxFilesValuesSeq, TTLValuesSeq)

\* ------------------------------------------------------------ search core
\* Lines 187-196: the documents with a positive score, in index order, each
\* with its score and its snippet.
RECURSIVE Scored(_, _)
Scored(index, q) ==
    IF index = <<>> THEN <<>>
    ELSE LET doc == Head(index)
             s == _score(doc.text, q)
         IN (IF ScorePositive(s)
             THEN << [id |-> doc.id, score |-> s,
                      snippet |-> _snippet(doc.text, q, DefaultWidth)] >>
             ELSE <<>>)
            \o Scored(Tail(index), q)

\* list.sort(key=score, reverse=True) is stable: an element goes behind every
\* element whose score is greater than or equal to its own.
\* (Faulty variant InsertByScoreUnstable: an element goes before the elements
\* of equal score.)
RECURSIVE InsertByScoreUnstable(_, _)
InsertByScoreUnstable(sorted, h) ==
    IF sorted = <<>> THEN <<h>>
    ELSE IF ~ ScoreGt(Head(sorted).score, h.score) THEN <<h>> \o sorted
    ELSE <<Head(sorted)>> \o InsertByScoreUnstable(Tail(sorted), h)
RECURSIVE InsertByScore(_, _)
InsertByScore(sorted, h) ==
    IF sorted = <<>> THEN <<h>>
    ELSE IF ScoreGt(h.score, Head(sorted).score) THEN <<h>> \o sorted
    ELSE <<Head(sorted)>> \o InsertByScore(Tail(sorted), h)

RECURSIVE SortByScore(_)
SortByScore(seq) ==
    IF seq = <<>> THEN <<>>
    ELSE InsertByScore(SortByScore(SubSeq(seq, 1, Len(seq) - 1)), seq[Len(seq)])

\* Lines 187-199: scored, sorted and cut to top_k.
SearchHits(index, q, top_k) == SliceTo(SortByScore(Scored(index, q)), top_k)

\* ---------------------------------------------------------------- actions
\* Worker p assigns the locals named in fields; its other locals stay.
Set(p, fields) == loc' = [loc EXCEPT ![p] = fields @@ loc[p]]

Goto(p, label) == pc' = [pc EXCEPT ![p] = label]

\* A request arrives at an idle worker.
StartHealth(p) ==
    /\ pc[p] = "idle"
    /\ op' = [op EXCEPT ![p] = "health"]
    /\ Goto(p, "h_len")
    /\ UNCHANGED <<store, now, settings, call, loc, hist>>

\* Line 173: reindex calls _index_drive_folder unconditionally.
StartReindex(p) ==
    /\ pc[p] = "idle"
    /\ rebuilds < MaxRebuilds
    /\ rebuilds' = rebuilds + 1
    /\ op' = [op EXCEPT ![p] = "reindex"]
    /\ Goto(p, "rb_start")
    /\ UNCHANGED <<store, now, settings, call, loc, idxGen, atGen, pubCount>>

StartDocsIndexed(p) ==
    /\ pc[p] = "idle"
    /\ op' = [op EXCEPT ![p] = "docs_indexed"]
    /\ Goto(p, "ensure")
    /\ UNCHANGED <<store, now, settings, call, loc, hist>>

\* Line 182: Query(..., min_length=2).  The framework validates q before it
\* calls the handler and answers 422 itself when q is too short.
\* (Faulty variant QueryAcceptedAny: no min_length.)
MinQueryLen == 2
QueryAcceptedAny(q) == TRUE
QueryAccepted(q) == Len(q) >= MinQueryLen

\* Line 182: a search request arrives; top_k is any integer.  The handler
\* body (line 183 on) runs only for a query that passes validation.
StartSearch(p, queries, topKs) ==
    /\ pc[p] = "idle"
    /\ \E q \in queries, k \in topKs :
          /\ Set(p, [q |-> q, top_k |-> k])
          /\ Goto(p, IF QueryAccepted(q) THEN "ensure" ELSE "rejected")
    /\ op' = [op EXCEPT ![p] = "search"]
    /\ UNCHANGED <<store, now, settings, call, hist>>

\* Where a handler goes on after ensure_index / _index_drive_folder returned.
AfterIndex(p) ==
    CASE op[p] = "search" -> "s_empty"
      [] op[p] = "docs_indexed" -> "di_len"
      [] OTHER -> "ri_at"

\* Lines 159-161 with 95-98: ensure_index evaluates _needs_refresh and, when
\* it is true, calls _index_drive_folder.
EnsureStale(p) ==
    /\ pc[p] = "ensure"
    /\ _needs_refresh(INDEXED_AT, settings.NEST_TTL_SECS, now)
    /\ rebuilds < MaxRebuilds
    /\ rebuilds' = rebuilds + 1
    /\ Goto(p, "rb_start")
    /\ UNCHANGED <<store, now, settings, call, op, loc, idxGen, atGen, pubCount>>

EnsureFresh(p) ==
    /\ pc[p] = "ensure"
    /\ ~ _needs_refresh(INDEXED_AT, settings.NEST_TTL_SECS, now)
    /\ Goto(p, AfterIndex(p))
    /\ UNCHANGED <<store, now, settings, call, op, loc, hist>>

\* A RuntimeError (or the adapter's exception) leaves _index_drive_folder
\* before line 155: nothing is assigned, the exception reaches the endpoint.
\* (Faulty variant RbRaiseClears: the failure path resets the store.)
RbRaiseClears(p) ==
    /\ Goto(p, "failed")
    /\ INDEX' = <<>>
    /\ INDEXED_AT' = None
    /\ UNCHANGED <<now, settings, call, op, loc, hist>>
RbRaise(p) ==
    /\ Goto(p, "failed")
    /\ UNCHANGED <<store, now, settings, call, op, loc, hist>>

\* Lines 127-131 with 63-64: folder id or OAuth JSON missing.
RbStartConfigError(p) ==
    /\ pc[p] = "rb_start"
    /\ ~ settings.NEST_DRIVE_FOLDER_ID \/ ~ settings.CREDS
    /\ RbRaise(p)

RbStartOk(p) ==
    /\ pc[p] = "rb_start"
    /\ settings.NEST_DRIVE_FOLDER_ID /\ settings.CREDS
    /\ Goto(p, "rb_list")
    /\ UNCHANGED <<store, now, settings, call, op, loc, hist>>

\* Line 134: the listing call raises (adapter unreachable, token refresh fails).
RbListRaises(p) ==
    /\ pc[p] = "rb_list"
    /\ RbRaise(p)

\* The rebuild's history (listed: what the folder listed; dl: the candidates
\* downloaded; exraised: those on which extract_text raised) is kept when log
\* is TRUE.
\* Lines 134-137: the listing returns, is sorted and truncated; new_index = [].
RbList(p, drive, log) ==
    /\ pc[p] = "rb_list"
    /\ \E listed \in SUBSET drive :
          LET files == Candidates(listed, settings.NEST_MAX_FILES)
          IN Set(p, [listed |-> IF log THEN listed ELSE {},
                     files |-> files, new_index |-> <<>>])
    /\ Goto(p, "rb_loop")
    /\ UNCHANGED <<store, now, settings, call, op, hist>>

\* Lines 138-153, one candidate: the download raises; the except clause
\* prints and the loop goes on without the document.
RbFileDownloadFails(p) ==
    /\ pc[p] = "rb_loop"
    /\ loc[p].files # <<>>
    /\ Set(p, [files |-> Tail(loc[p].files)])
    /\ Goto(p, "rb_loop")
    /\ UNCHANGED <<store, now, settings, call, op, hist>>

\* Lines 138-153, one candidate: the download completes and extract_text
\* raises; the same except clause drops the document.
RbFileExtractRaises(p, log) ==
    /\ pc[p] = "rb_loop"
    /\ loc[p].files # <<>>
    /\ LET f == Head(loc[p].files)
       IN Set(p, [files |-> Tail(loc[p].files),
                  dl |-> IF log THEN Append(loc[p].dl, f) ELSE <<>>,
                  exraised |-> IF log THEN loc[p].exraised \cup {f} ELSE {}])
    /\ Goto(p, "rb_loop")
    /\ UNCHANGED <<store, now, settings, call, op, hist>>

\* Lines 138-151, one candidate: downloaded, extract_text returns raw (an
\* empty result when it finds no text), the cleaned text is appended.
RbFileIndexed(p, log) ==
    /\ pc[p] = "rb_loop"
    /\ loc[p].files # <<>>
    /\ LET f == Head(loc[p].files)
       IN Set(p, [files |-> Tail(loc[p].files),
                  new_index |-> Append(loc[p].new_index,
                                       [id |-> f, text |-> CleanText(RawTextOf(f))]),
                  dl |-> IF log THEN Append(loc[p].dl, f) ELSE <<>>])
    /\ Goto(p, "rb_loop")
    /\ UNCHANGED <<store, now, settings, call, op, hist>>

\* Faulty variant of line 155 without the "global INDEX" of line 125: the
\* assignment binds a local and the module's INDEX keeps the old list.
RbPubIndexLocal(p) ==
    /\ pc[p] = "rb_loop"
    /\ loc[p].files = <<>>
    /\ pubCount' = pubCount + 1
    /\ Set(p, [gen |-> pubCount + 1])
    /\ Goto(p, "rb_now")
    /\ UNCHANGED <<store, now, settings, call, op, idxGen, atGen, rebuilds>>

\* Line 155: INDEX = new_index.
RbPubIndex(p) ==
    /\ pc[p] = "rb_loop"
    /\ loc[p].files = <<>>
    /\ INDEX' = loc[p].new_index
    /\ pubCount' = pubCount + 1
    /\ idxGen' = pubCount + 1
    /\ Set(p, [gen |-> pubCount + 1])
    /\ Goto(p, "rb_now")
    /\ UNCHANGED <<INDEXED_AT, now, settings, call, op, atGen, rebuilds>>

\* Line 156, right-hand side: _now() is called.  The locals of the loop are
\* dead from here on; a reindex request remembers in built how many
\* documents its own rebuild indexed.
RbNow(p) ==
    /\ pc[p] = "rb_now"
    /\ Set(p, [t |-> now, new_index |-> <<>>,
               built |-> IF op[p] = "reindex" THEN Len(loc[p].new_index) ELSE Unset,
               listed |-> {}, dl |-> <<>>, exraised |-> {}])
    /\ Goto(p, "rb_stamp")
    /\ UNCHANGED <<store, now, settings, call, op, hist>>

\* Line 156, the store: INDEXED_AT = <the value _now() returned>.
RbStamp(p) ==
    /\ pc[p] = "rb_stamp"
    /\ INDEXED_AT' = Some(loc[p].t)
    /\ atGen' = loc[p].gen
    /\ Goto(p, "rb_ret")
    /\ UNCHANGED <<INDEX, now, settings, call, op, loc, idxGen, pubCount, rebuilds>>

\* Line 157: return len(INDEX), a read of the global.  ensure_index drops
\* the value; reindex keeps it, and the stamp its rebuild took stays on record.
\* The serial of the rebuild stays on record for a search.
RbRet(p) ==
    /\ pc[p] = "rb_ret"
    /\ Set(p, [n |-> IF op[p] = "reindex" THEN Len(INDEX) ELSE Unset,
               t |-> IF op[p] = "reindex" THEN loc[p].t ELSE Unset,
               gen |-> IF op[p] = "search" THEN loc[p].gen ELSE Unset])
    /\ Goto(p, AfterIndex(p))
    /\ UNCHANGED <<store, now, settings, call, op, hist>>

\* Line 168, first read: len(INDEX).
HLen(p) ==
    /\ pc[p] = "h_len"
    /\ Set(p, [total_docs |-> Len(INDEX), gLen |-> idxGen])
    /\ Goto(p, "h_at")
    /\ UNCHANGED <<store, now, settings, call, op, hist>>

\* Line 168, second read: INDEXED_AT.
HAt(p) ==
    /\ pc[p] = "h_at"
    /\ Set(p, [indexed_at |-> INDEXED_AT, gAt |-> atGen])
    /\ Goto(p, "done")
    /\ UNCHANGED <<store, now, settings, call, op, hist>>

\* Line 174: docs_indexed is n, indexed_at a read of INDEXED_AT.
RiAt(p) ==
    /\ pc[p] = "ri_at"
    /\ Set(p, [total_docs |-> loc[p].n, indexed_at |-> INDEXED_AT])
    /\ Goto(p, "done")
    /\ UNCHANGED <<store, now, settings, call, op, hist>>

\* Line 179: count is len(INDEX).
DiLen(p) ==
    /\ pc[p] = "di_len"
    /\ Set(p, [total_docs |-> Len(INDEX)])
    /\ Goto(p, "done")
    /\ UNCHANGED <<store, now, settings, call, op, hist>>

\* What a response should report as indexed_at for the list INDEX names now:
\* the stamp of the rebuild that assigned it (0 for the initial list), known
\* once that rebuild has stored its stamp and no other stamp has replaced it.
StampOfIndex ==
    IF atGen # idxGen THEN None
    ELSE IF INDEXED_AT = None THEN Some(0) ELSE INDEXED_AT

\* Lines 184-185: INDEX is empty; hits = [], total_docs = 0.
\* (Faulty variant SEmptyYesScores: no short-circuit, the empty list goes
\* through the scoring loop.)
SEmptyYesScores(p) ==
    /\ pc[p] = "s_empty"
    /\ INDEX = <<>>
    /\ Goto(p, "s_score")
    /\ UNCHANGED <<store, now, settings, call, op, loc, hist>>
SEmptyYes(p) ==
    /\ pc[p] = "s_empty"
    /\ INDEX = <<>>
    /\ Set(p, [hits |-> <<>>, total_docs |-> 0, gScore |-> idxGen,
               scoredLen |-> 0, scoredAt |-> StampOfIndex])
    /\ Goto(p, "s_at")
    /\ UNCHANGED <<store, now, settings, call, op, hist>>

SEmptyNo(p) ==
    /\ pc[p] = "s_empty"
    /\ INDEX # <<>>
    /\ Goto(p, "s_score")
    /\ UNCHANGED <<store, now, settings, call, op, loc, hist>>

\* Lines 187-199: "for doc in INDEX" takes the list INDEX names at that
\* moment (lists are replaced, never mutated) and scores it.  scoredLen and
\* scoredAt put on record the size and the stamp of the list that is scored.
SScore(p) ==
    /\ pc[p] = "s_score"
    /\ Set(p, [hits |-> SearchHits(INDEX, loc[p].q, loc[p].top_k), gScore |-> idxGen,
               scoredLen |-> Len(INDEX), scoredAt |-> StampOfIndex])
    /\ Goto(p, "s_len")
    /\ UNCHANGED <<store, now, settings, call, op, hist>>

\* Line 200: total_docs = len(INDEX).
SLen(p) ==
    /\ pc[p] = "s_len"
    /\ Set(p, [total_docs |-> Len(INDEX), gLen |-> idxGen])
    /\ Goto(p, "s_at")
    /\ UNCHANGED <<store, now, settings, call, op, hist>>

\* Lines 185 and 200: indexed_at = INDEXED_AT or 0.0.
SAt(p) ==
    /\ pc[p] = "s_at"
    /\ Set(p, [indexed_at |-> IF INDEXED_AT = None THEN Some(0) ELSE INDEXED_AT,
               gAt |-> atGen])
    /\ Goto(p, "done")
    /\ UNCHANGED <<store, now, settings, call, op, hist>>

\* The response (or the error) has been sent; the worker is free again.
Return(p) ==
    /\ pc[p] \in {"done", "failed", "rejected"}
    /\ op' = [op EXCEPT ![p] = "none"]
    /\ loc' = [loc EXCEPT ![p] = Loc0]
    /\ Goto(p, "idle")
    /\ UNCHANGED <<store, now, settings, call, hist>>

\* time.time() advances.
Tick(maxTime) ==
    /\ now < maxTime
    /\ now' = now + 1
    /\ UNCHANGED <<store, settings, call, pc, op, loc, hist>>

NextOver(workers, drive, queries, topKs, maxTime, log) ==
    \/ Tick(maxTime)
    \/ \E p \in workers :
          \/ StartHealth(p) \/ StartReindex(p) \/ StartDocsIndexed(p)
          \/ StartSearch(p, queries, topKs)
          \/ EnsureStale(p) \/ EnsureFresh(p)
          \/ RbStartConfigError(p) \/ RbStartOk(p) \/ RbListRaises(p)
          \/ RbList(p, drive, log)
          \/ RbFileDownloadFails(p) \/ RbFileExtractRaises(p, log)
          \/ RbFileIndexed(p, log)
          \/ RbPubIndex(p) \/ RbNow(p) \/ RbStamp(p) \/ RbRet(p)
          \/ HLen(p) \/ HAt(p) \/ RiAt(p) \/ DiLen(p)
          \/ SEmptyYes(p) \/ SEmptyNo(p) \/ SScore(p) \/ SLen(p) \/ SAt(p)
          \/ Return(p)

\* Requests served concurrently by the worker threads.
Next == NextOver(Procs, FileIds, Queries, TopKs, MaxTime, FALSE)
Spec == Init /\ [][Next]_vars

\* Requests served one after the other by a single worker, each rebuild with
\* its history.
NextSeq == NextOver({"w1"}, FileIdsSeq, QueriesSeq, TopKsSeq, MaxTimeSeq, TRUE)
SpecSeq == InitSeq /\ [][NextSeq]_vars

\* ------------------------------------------------- searches over any index
\* A text longer than 1000 characters: "ab" at its start and at its end,
\* filler in between.
LongText ==
    [i \in 1..(2 * Kilo) |->
        IF i \in {1, 2 * Kilo - 1} THEN "a"
        ELSE IF i \in {2, 2 * Kilo} THEN "b" ELSE "c"]
\* Texts the documents of the folder may have: none, one without the query,
\* some with one occurrence, one with two, and the long one.
DocTexts ==
    { <<>>, <<"b", "a">>, <<"a", "b">>, <<"b", "A", "B">>, <<"A", "b", "a", "b">>,
      LongText }
\* The lists a rebuild can assign to INDEX over such a folder: the documents
\* of any set of files, by descending id.
Indexes ==
    UNION { { [i \in 1..Len(SortDesc(S)) |->
                 [id |-> SortDesc(S)[i], text |-> f[SortDesc(S)[i]]]] :
              f \in [S -> DocTexts] } : S \in SUBSET FileIdsSeq }
QueriesRank == QueriesSeq \cup { <<"A", "B">> }

\* A rebuild at time 0 has stored one of the lists; the index stays fresh.
InitRank ==
    /\ INDEX \in Indexes
    /\ INDEXED_AT = Some(0)
    /\ now = 0
    /\ settings = [ NEST_DRIVE_FOLDER_ID |-> TRUE, CREDS |-> TRUE,
                    NEST_MAX_FILES |-> Cardinality(FileIdsSeq), NEST_TTL_SECS |-> 0 ]
    /\ pc = [p \in Procs |-> "idle"]
    /\ op = [p \in Procs |-> "none"]
    /\ loc = [p \in Procs |-> Loc0]
    /\ idxGen = 1
    /\ atGen = 1
    /\ pubCount = 1
    /\ rebuilds = 1
    /\ call = NoCall

\* One worker serves search requests against that index.
NextRank ==
    \E p \in {"w1"} :
        \/ StartSearch(p, QueriesRank, TopKsSeq)
        \/ EnsureFresh(p)
        \/ SEmptyYes(p) \/ SEmptyNo(p) \/ SScore(p) \/ SLen(p) \/ SAt(p)
        \/ Return(p)
SpecRank == InitRank /\ [][NextRank]_vars

\* ------------------------------------------- the helpers called directly
Alphabet == {"a", "A", "b"}
\* Every string over the alphabet up to a length.
Strings(maxLen) == UNION { [1..n -> Alphabet] : n \in 0..maxLen }
\* The texts of direct calls: the short strings and a text of more than 1000
\* characters (a prefix of LongText).
TextsFn == Strings(3) \cup {SubSeq(LongText, 1, Kilo + 200)}
QueriesFn == Strings(2)
WidthsFn == {0, 1, 2, 3, DefaultWidth}

\* _score(text, query) is called and returns.
CallScore ==
    /\ call = NoCall
    /\ \E text \in TextsFn, query \in QueriesFn :
          call' = [fn |-> "_score", text |-> text, query |-> query,
                   result |-> _score(text, query)]
    /\ UNCHANGED <<store, now, settings, pc, op, loc, hist>>

\* _snippet(text, query, width) is called and returns.
CallSnippet ==
    /\ call = NoCall
    /\ \E text \in TextsFn, query \in QueriesFn, width \in WidthsFn :
          call' = [fn |-> "_snippet", text |-> text, query |-> query, width |-> width,
                   result |-> _snippet(text, query, width)]
    /\ UNCHANGED <<store, now, settings, pc, op, loc, hist>>

InitFn ==
    /\ InitWith(MaxFilesValues, TTLValues)
    /\ settings.NEST_DRIVE_FOLDER_ID /\ settings.CREDS /\ settings.NEST_TTL_SECS = 0
\* The caller has taken the result.
CallDone ==
    /\ call # NoCall
    /\ call' = NoCall
    /\ UNCHANGED <<store, now, settings, pc, op, loc, hist>>

NextFn == CallScore \/ CallSnippet \/ CallDone
SpecFn == InitFn /\ [][NextFn]_vars

\* ------------------------------------------------------------- properties
Workers == Procs
TTL == settings.NEST_TTL_SECS

\* Worker p is inside _index_drive_folder: it has passed lines 127-131 and has
\* not yet stored INDEXED_AT (line 156).
InRebuild(p) == pc[p] \in {"rb_list", "rb_loop", "rb_now", "rb_stamp"}

\* The identifiers of a list of documents, in order.
Ids(index) == [i \in 1..Len(index) |-> index[i].id]

\* C1: every observation a reader (health, search) makes of the store is a
\* consistent snapshot: the INDEX it read and the INDEXED_AT it read are those
\* of one and the same rebuild (or both the initial ones).
C1_ConsistentSnapshot ==
    \A p \in Workers :
        /\ (op[p] = "health" /\ pc[p] = "done") => loc[p].gLen = loc[p].gAt
        /\ (op[p] = "search" /\ pc[p] = "done") =>
              /\ loc[p].gScore = loc[p].gAt
              /\ loc[p].gLen \in {Unset, loc[p].gAt}

\* C2: at most one execution of _index_drive_folder is between its start and
\* its final write at any time.
C2_AtMostOneRebuild ==
    Cardinality({p \in Workers : InRebuild(p)}) <= 1

\* C3: a rebuild that fails as a whole (configuration error, listing raises)
\* changes nothing: every step it takes, up to and including the failure,
\* leaves INDEX and INDEXED_AT as they were.
C3_FailedRebuildChangesNothing ==
    [][ \A p \in Workers :
           (\/ pc[p] = "rb_start" /\ pc'[p] \in {"rb_list", "failed"}
            \/ pc[p] = "rb_list" /\ pc'[p] = "failed")
              => (INDEX' = INDEX /\ INDEXED_AT' = INDEXED_AT) ]_vars

\* A rebuild has failed while a non-empty, stamped index was in place.
C3_Witness ==
    \E p \in Workers : pc[p] = "failed" /\ INDEX # <<>> /\ INDEXED_AT # None

\* C4: when a built index has become stale (its age exceeds the TTL) and the
\* rebuild a search triggers fails as a whole, the search does not fail: it
\* still returns a response computed from the previous index.
C4_StaleIndexKeepsServing ==
    \A p \in Workers :
        (op[p] = "search" /\ INDEXED_AT # None /\ TTL >= 0
         /\ now - INDEXED_AT[1] > TTL)
            => pc[p] # "failed"

\* C5 as claimed: the hits of a search that rebuilt the index are computed
\* from the list that very rebuild assigned to INDEX.
C5_HitsFromOwnRebuild ==
    \A p \in Workers :
        (op[p] = "search" /\ pc[p] = "done" /\ loc[p].gen # Unset)
           => loc[p].gScore = loc[p].gen

\* C5 as amended: the hits of a search that rebuilt the index are computed
\* from the list that rebuild assigned to INDEX or from a list assigned after
\* it, never from the list that was stale when the search started.
C5_HitsNeverFromStale ==
    \A p \in Workers :
        (op[p] = "search" /\ pc[p] \in {"s_at", "s_len", "done"} /\ loc[p].gen # Unset)
           => loc[p].gScore >= loc[p].gen

\* A search has rebuilt the index and returned hits.
C5_Witness ==
    \E p \in Workers :
        op[p] = "search" /\ pc[p] = "done" /\ loc[p].gen # Unset /\ loc[p].hits # <<>>

\* C6 as claimed: a search that evaluates ensure_index while the clock still
\* reads the build timestamp triggers no rebuild and leaves the store alone,
\* whatever the TTL.
C6_NoSecondRebuild ==
    [][ \A p \in Workers :
           (op[p] = "search" /\ pc[p] = "ensure" /\ pc'[p] # "ensure"
            /\ INDEXED_AT = Some(now))
              => (pc'[p] = "s_empty" /\ INDEX' = INDEX /\ INDEXED_AT' = INDEXED_AT) ]_vars

\* C6 as amended: the same for every TTL that is not negative.
C6_NoSecondRebuildNonNegTTL ==
    [][ \A p \in Workers :
           (op[p] = "search" /\ pc[p] = "ensure" /\ pc'[p] # "ensure"
            /\ INDEXED_AT = Some(now) /\ TTL >= 0)
              => (pc'[p] = "s_empty" /\ INDEX' = INDEX /\ INDEXED_AT' = INDEXED_AT) ]_vars

\* A search has just skipped the rebuild at the build timestamp, with TTL 0.
C6_Witness ==
    \E p \in Workers :
        /\ op[p] = "search" /\ pc[p] = "s_empty" /\ loc[p].gen = Unset
        /\ INDEXED_AT = Some(now) /\ TTL = 0

\* C7: ensure_index rebuilds exactly when INDEXED_AT is absent or
\* now - INDEXED_AT > TTL (strictly), and evaluating _needs_refresh changes
\* neither the store, nor the clock, nor the settings.
C7_NeedsRefresh ==
    [][ \A p \in Workers :
           (pc[p] = "ensure" /\ pc'[p] # "ensure")
              => /\ (pc'[p] = "rb_start") <=>
                       (INDEXED_AT = None \/ now - INDEXED_AT[1] > TTL)
                 /\ UNCHANGED <<INDEX, INDEXED_AT, now, settings>> ]_vars

\* An index whose age equals a positive TTL has just been found fresh.
C7_Witness ==
    \E p \in Workers :
        /\ op[p] = "search" /\ pc[p] = "s_empty" /\ loc[p].gen = Unset
        /\ INDEXED_AT # None /\ TTL > 0 /\ now - INDEXED_AT[1] = TTL

\* C8: INDEXED_AT is absent if and only if no rebuild has completed its final
\* write yet, and while it is absent INDEX is empty.
C8_AbsentOnlyBeforeFirstBuild ==
    /\ (INDEXED_AT = None) <=> (atGen = 0)
    /\ (INDEXED_AT = None) => (INDEX = <<>>)

\* C9: when a rebuild publishes, the new index holds, in listing order, every
\* candidate whose download succeeded (a failed download is just omitted).
C9_DownloadedAreIndexed ==
    \A p \in Workers :
        (pc[p] = "rb_now" /\ idxGen = loc[p].gen) => Ids(INDEX) = loc[p].dl

\* The candidates of worker p's rebuild that were downloaded and whose text
\* extraction failed: extract_text raised, or returned nothing.
ExtractionFailed(p) ==
    loc[p].exraised \cup
        {f \in {loc[p].dl[i] : i \in 1..Len(loc[p].dl)} : RawTextOf(f) = <<>>}

\* C10: when a rebuild publishes, every candidate that was downloaded and
\* whose text extraction failed is in the index with empty text.
C10_UnextractableKeptEmpty ==
    \A p \in Workers :
        (pc[p] = "rb_now" /\ idxGen = loc[p].gen) =>
            \A f \in ExtractionFailed(p) :
                \E i \in 1..Len(INDEX) : INDEX[i] = [id |-> f, text |-> <<>>]

\* The n greatest members of a set of identifiers.
Greatest(S, n) == {x \in S : Cardinality({y \in S : y > x}) < n}

C12_ReindexReturnsOwnRebuild ==
    \A p \in Workers :
        (op[p] = "reindex" /\ pc[p] = "done") =>
            /\ loc[p].built # Unset
            /\ loc[p].total_docs = loc[p].built
            /\ loc[p].indexed_at = Some(loc[p].t)

\* C13 as claimed: a search that finds INDEX empty, also right after process
\* start, starts no rebuild (the adapter is not invoked) and answers
\* hits = [], total_docs = 0 without entering the scoring loop.
C13_EmptyIndexShortCircuits ==
    [][ \A p \in Workers :
           /\ (op[p] = "search" /\ pc[p] = "ensure" /\ pc'[p] # "ensure"
                /\ INDEX = <<>>)
                 => (pc'[p] = "s_empty" /\ rebuilds' = rebuilds
                     /\ INDEX' = INDEX /\ INDEXED_AT' = INDEXED_AT)
           /\ (pc[p] = "s_empty" /\ pc'[p] # "s_empty" /\ INDEX = <<>>)
                 => (pc'[p] = "s_at" /\ loc'[p].hits = <<>>
                     /\ loc'[p].total_docs = 0) ]_vars

\* C13 as amended: the same for an empty index that has been built and is
\* not older than the TTL.
C13_FreshEmptyIndexShortCircuits ==
    [][ \A p \in Workers :
           /\ (op[p] = "search" /\ pc[p] = "ensure" /\ pc'[p] # "ensure"
                /\ INDEX = <<>>
                /\ INDEXED_AT # None /\ now - INDEXED_AT[1] <= TTL)
                 => (pc'[p] = "s_empty" /\ rebuilds' = rebuilds
                     /\ INDEX' = INDEX /\ INDEXED_AT' = INDEXED_AT)
           /\ (pc[p] = "s_empty" /\ pc'[p] # "s_empty" /\ INDEX = <<>>)
                 => (pc'[p] = "s_at" /\ loc'[p].hits = <<>>
                     /\ loc'[p].total_docs = 0) ]_vars

\* A search has found a built, fresh, empty index and answered without a
\* rebuild of its own.
C13_Witness ==
    \E p \in Workers :
        /\ op[p] = "search" /\ pc[p] = "s_at" /\ loc[p].gen = Unset
        /\ INDEX = <<>> /\ INDEXED_AT # None /\ now - INDEXED_AT[1] <= TTL
        /\ loc[p].hits = <<>> /\ loc[p].total_docs = 0

\* C14: a search whose query has fewer than 2 characters is rejected before
\* the handler runs: it never gets past the rejection, no rebuild is started
\* for it (also when the index is stale or was never built), and INDEX and
\* INDEXED_AT stay as they are.
C14_ShortQueryRejected ==
    [][ \A p \in Workers :
           (op'[p] = "search" /\ Len(loc'[p].q) < 2)
              => (pc'[p] = "rejected" /\ rebuilds' = rebuilds
                  /\ INDEX' = INDEX /\ INDEXED_AT' = INDEXED_AT) ]_vars

\* A one-character query has been rejected while the index was stale.
C14_Witness ==
    \E p \in Workers :
        /\ op[p] = "search" /\ pc[p] = "rejected" /\ Len(loc[p].q) = 1
        /\ INDEXED_AT # None /\ now - INDEXED_AT[1] > TTL /\ TTL >= 0

\* Where the document with identifier id stands in a list of documents.
Pos(index, id) == CHOOSE i \in 1..Len(index) : index[i].id = id

\* Worker p's search has computed its hits.
HasHits(p) == op[p] = "search" /\ pc[p] \in {"s_len", "s_at", "done"}

\* C15: the hits of a search are in non-increasing score order, and two hits
\* of equal score stand in the order of their documents in the index.
C15_HitsSortedStable ==
    \A p \in Workers :
        HasHits(p) =>
            \A i, j \in 1..Len(loc[p].hits) :
                i < j =>
                    LET a == loc[p].hits[i]
                        b == loc[p].hits[j]
                    IN /\ a.score.num * b.score.den >= b.score.num * a.score.den
                       /\ (a.score.num * b.score.den = b.score.num * a.score.den)
                             => Pos(INDEX, a.id) < Pos(INDEX, b.id)

\* Three hits: the last document of the index ranks first, the two before it
\* tie, one of them only by its length normalisation.
C15_Witness ==
    \E p \in Workers :
        /\ HasHits(p) /\ pc[p] = "done" /\ Len(loc[p].hits) = 3 /\ Len(INDEX) = 3
        /\ loc[p].hits[1].id = INDEX[3].id
        /\ loc[p].hits[2].id = INDEX[1].id
        /\ loc[p].hits[3].id = INDEX[2].id
        /\ loc[p].hits[2].score.den # loc[p].hits[3].score.den
        /\ loc[p].hits[2].score.num * loc[p].hits[3].score.den
              = loc[p].hits[3].score.num * loc[p].hits[2].score.den

\* C16: whatever integer top_k is, a search that returns hits returns no more
\* than top_k of them; the hits are the first min(top_k, n) of the n documents
\* with a positive score, ranked by descending score; no hit has score 0.
C16_TopKPrefix ==
    \A p \in Workers :
        HasHits(p) =>
            LET ranked == SortByScore(Scored(INDEX, loc[p].q))
                n == Len(ranked)
            IN /\ loc[p].hits # <<>> => Len(loc[p].hits) <= loc[p].top_k
               /\ loc[p].hits = SubSeq(ranked, 1, Min(loc[p].top_k, n))
               /\ \A i \in 1..Len(loc[p].hits) :
                     /\ loc[p].hits[i].score.num > 0
                     /\ Count(Lower(INDEX[Pos(INDEX, loc[p].hits[i].id)].text),
                              Lower(loc[p].q)) > 0

\* C17: in every search response total_docs is the size of the list the hits
\* were scored against, and indexed_at is the build timestamp of that same
\* list (0 for the initial one), also when other requests rebuild meanwhile.
C17_ResponseDescribesScoredIndex ==
    \A p \in Workers :
        (op[p] = "search" /\ pc[p] = "done") =>
            /\ loc[p].total_docs = loc[p].scoredLen
            /\ loc[p].scoredAt # None => loc[p].indexed_at = loc[p].scoredAt

\* The offsets (from 0) at which q occurs in t.
Occurrences(t, q) ==
    {o \in 0..(Len(t) - Len(q)) : SubSeq(t, o + 1, o + Len(q)) = q}

\* The number of non-overlapping occurrences of q in t, both lowercased: the
\* size of the largest set of occurrences no two of which overlap; for the
\* empty q, one per position of t, the end included (what str.count reports).
OccurrenceCount(text, query) ==
    LET t == Lower(text)
        q == Lower(query)
        apart(S) == \A a, b \in S : a # b => (a + Len(q) <= b \/ b + Len(q) <= a)
        sizes == {Cardinality(S) : S \in {T \in SUBSET Occurrences(t, q) : apart(T)}}
    IN IF q = <<>> THEN Len(t) + 1
       ELSE CHOOSE n \in sizes : \A k \in sizes : k <= n

\* C18 as claimed: _score is never negative, it is positive exactly when the
\* occurrence count is positive, and then it equals
\* count / max(1, len(text) / 1000).
C18_ScoreSignAndValue ==
    call.fn = "_score" =>
        LET c == OccurrenceCount(call.text, call.query)
            r == call.result
        IN /\ r.den > 0 /\ r.num >= 0
           /\ (r.num > 0) <=> (c > 0)
           /\ (c > 0) => r.num * Max(1000, Len(call.text)) = c * 1000 * r.den

\* C18 as amended: the same, except that the score of the empty text is 0
\* whatever the count (the empty query is counted once in the empty text).
C18_ScoreSignAndValueNonEmptyText ==
    call.fn = "_score" =>
        LET c == OccurrenceCount(call.text, call.query)
            r == call.result
        IN /\ r.den > 0 /\ r.num >= 0
           /\ (r.num > 0) <=> (call.text # <<>> /\ c > 0)
           /\ (call.text # <<>> /\ c > 0)
                 => r.num * Max(1000, Len(call.text)) = c * 1000 * r.den

\* _score has returned a positive value for a text of more than 1000
\* characters.
C18_Witness ==
    /\ call.fn = "_score" /\ Len(call.text) > 1000
    /\ call.query = <<"A", "b">> /\ call.result.num > 0

\* A window w of a text in which an emphasis marker is put before every
\* occurrence (of length m) that starts at an offset in occ, and after it.
\* WrapRange gives the part of the result for the offsets lo..hi: at each
\* offset the closing marker, the opening marker, the character.
RECURSIVE WrapRange(_, _, _, _, _)
WrapRange(w, m, occ, lo, hi) ==
    IF lo = hi
    THEN (IF lo - m \in occ THEN MARK ELSE <<>>)
         \o (IF lo \in occ THEN MARK ELSE <<>>)
         \o (IF lo < Len(w) THEN <<w[lo + 1]>> ELSE <<>>)
    ELSE LET mid == (lo + hi) \div 2
         IN WrapRange(w, m, occ, lo, mid) \o WrapRange(w, m, occ, mid + 1, hi)
WrapAll(w, m, occ) == WrapRange(w, m, occ, 0, Len(w))

\* The occurrences of q in w met when scanning left to right and resuming
\* behind each occurrence found: no two of them overlap.  The empty q is met
\* at every offset.
RECURSIVE ScanFrom(_, _, _)
ScanFrom(w, q, o) ==
    LET rest == {x \in Occurrences(w, q) : x >= o}
    IN IF rest = {} THEN {}
       ELSE LET x == CHOOSE y \in rest : \A z \in rest : y <= z
            IN {x} \cup ScanFrom(w, q, x + Len(q))
ScannedOccurrences(w, q) == IF q = <<>> THEN Occurrences(w, q) ELSE ScanFrom(w, q, 0)

\* What _snippet should return when the occurrences to be wrapped are all
\* those in the window (scanned FALSE) or the scanned ones: text cut to width, with an ellipsis if it is
\* longer, when the lowercased query does not occur in the lowercased text;
\* otherwise the window around the first such occurrence, wrapped.
SnippetOf(text, query, width, scanned) ==
    LET found == Occurrences(Lower(text), Lower(query))
    IN IF found = {}
       THEN SubSeq(text, 1, Min(width, Len(text)))
            \o (IF Len(text) > width THEN <<ELLIPSIS>> ELSE <<>>)
       ELSE LET pos == CHOOSE o \in found : \A x \in found : o <= x
                from == Max(0, pos - (width \div 2))
                to == Min(Len(text), pos + Len(query) + (width \div 2))
                w == SubSeq(text, from + 1, to)
            IN WrapAll(w, Len(query),
                       IF scanned THEN ScannedOccurrences(w, query)
                       ELSE Occurrences(w, query))

\* C19 as claimed: _snippet returns the text cut to width (with an ellipsis
\* exactly when it is longer) when the query is not found, and otherwise the
\* window around the first occurrence with every exact-case occurrence of the
\* query inside the window, and nothing else, wrapped in the marker pair.
C19_SnippetWrapsEveryOccurrence ==
    call.fn = "_snippet" =>
        call.result = SnippetOf(call.text, call.query, call.width, FALSE)

\* C19 as amended: the same with the occurrences met by a left-to-right scan
\* that resumes behind each occurrence (an occurrence overlapping an earlier
\* wrapped one is not wrapped).
C19_SnippetWrapsScannedOccurrences ==
    call.fn = "_snippet" =>
        call.result = SnippetOf(call.text, call.query, call.width, TRUE)

\* _snippet has returned for a text in which two occurrences of the query
\* overlap: the first is wrapped, the second is not.
C19_Witness ==
    /\ call.fn = "_snippet" /\ call.width = DefaultWidth
    /\ call.text = <<"a", "a", "a">> /\ call.query = <<"a", "a">>
    /\ call.result = MARK \o <<"a", "a">> \o MARK \o <<"a">>

\* No execution of _index_drive_folder is under way.
NoRebuildRunning ==
    \A p \in Workers : pc[p] \notin {"rb_start", "rb_list", "rb_loop", "rb_now", "rb_stamp"}

\* C20: while the clock never goes back, no step lowers INDEXED_AT (or makes
\* it absent again), and whenever no rebuild is under way INDEX is the list of
\* the rebuild that assigned it last and INDEXED_AT has the value of the stamp
\* that same rebuild took: it was the last to store its stamp, or the store
\* that came after its own left the value as it was.
C20_StampMonotoneAndPaired ==
    [][ /\ now' >= now
        /\ INDEXED_AT # None =>
              (INDEXED_AT' # None /\ INDEXED_AT'[1] >= INDEXED_AT[1])
        /\ NoRebuildRunning' =>
              /\ idxGen' = pubCount'
              /\ \/ atGen' = idxGen'
                 \/ atGen # idxGen
                 \/ INDEXED_AT' = INDEXED_AT ]_vars

====
